---- MODULE Spec2Model ----
(***************************************************************************)
(* Model of api/index.js: the upload handler that supervises one python    *)
(* worker per request, the live-process table (activeProcesses), the SSE   *)
(* subscriber table (progressStore) and the shutdown hooks.                *)
(*                                                                         *)
(* Every express handler and every event callback runs to completion on    *)
(* the single node thread, so each is one atomic action.                   *)
(***************************************************************************)
EXTENDS Integers, Sequences, FiniteSets, TLC

\* ------------------------------------------------------------------ bounds
MaxReq    == 2   \* upload requests the server receives
MaxClock  == 2   \* distinct values Date.now() takes during a run
MaxFiles  == 2   \* files in one upload of the correlator runs (multer allows up to 10)
MaxBatch  == 1   \* files in one upload of the lifecycle runs
MaxChunks == 3   \* stdout chunks of one worker in the correlator runs
MaxData   == 1   \* stdout chunks of one worker in the lifecycle runs
MaxSubs   == 2   \* /api/progress connections
MaxDownloads == 2 \* /api/download requests

Reqs   == 1..MaxReq
Subs   == 1..MaxSubs
Clock  == 1..MaxClock
NoProc == 0      \* Map.get() returning undefined

\* ------------------------------------------------------- worker output
\* A stdout line is a record; k names the text it carries.
\*   img    "Processing image <n> of <m>"
\*   cls    "Image <i> classified as <cat>"
\*   gen    "Generating PowerPoint ..."
\*   txt    diagnostic text with none of the markers
\*   blank  whitespace only
\*   bad    starts with "{" and ends with "}" but is not JSON
\*   json   starts with "{", ends with "}" and parses; status/path/cats/error
\*          are the parsed fields ("none" and <<>> stand for a missing field)
ImgLine(n)   == [k |-> "img", n |-> n]
ClsLine(c)   == [k |-> "cls", cat |-> c]
GenLine      == [k |-> "gen"]
TxtLine      == [k |-> "txt"]
BlankLine    == [k |-> "blank"]
BadLine      == [k |-> "bad"]
JsonLine(st, p, c, e) == [k |-> "json", status |-> st, path |-> p, cats |-> c, error |-> e]

\* A 'data' event carries a piece of the stdout text, not whole lines: a line
\* can be cut in two, its head ending one chunk and its tail starting a later
\* one. The cuts modelled lie inside the marker text, so neither piece passes
\* an includes() test or looks structured on its own:
\*   ImgHead      "Processing ima"                 TailOf(ImgLine(n))  "ge <n> of <m>\n"
\*   JsonHead     '{"status":"success","output_'   TailOf(json line)   'path":...}\n'
ImgHead   == [k |-> "head", text |-> "img"]
JsonHead  == [k |-> "head", text |-> "json"]
TailOf(l) == [k |-> "tail", of |-> l]

PathX == <<"reports", "x.pptx">>
PathY == <<"tmp", "out", "y.pptx">>
OkX   == JsonLine("success", PathX, "catsX", "none")
OkY   == JsonLine("success", PathY, "catsY", "none")
ErrM  == JsonLine("error", <<>>, "none", "boom")
ErrN  == JsonLine("error", <<>>, "none", "none")
OkNoPath == JsonLine("success", <<>>, "catsX", "none")

\* Chunks the worker writes in the lifecycle runs (several jobs in flight).
SmallChunks == { <<ImgLine(1)>>, <<OkX>> }

\* Chunks the worker writes in the correlator runs (one job, rich output).
ChunkSet ==
  { <<ImgLine(1)>>, <<ImgLine(2), ClsLine("front")>>, <<ClsLine("side")>>,
    <<GenLine>>, <<TxtLine, BlankLine>>, <<BadLine>>, <<OkX>>, <<OkY, BlankLine>>,
    <<ErrM>>, <<ErrN>>, <<OkNoPath>>, <<BadLine, OkX>>, <<OkX, BadLine>>,
    <<ImgHead>>, <<TailOf(ImgLine(1))>>, <<JsonHead>>, <<TailOf(OkX)>> }

\* Exit codes the 'close' event reports; NullCode is the null that node
\* passes when the worker died from a signal.
NullCode  == 0 - 1
ExitCodes == {0, 1, NullCode}
NotClosed == 0 - 2   \* no 'close' event yet

\* ------------------------------------------------------------- state
VARIABLES
  clock,            \* Date.now()
  server,           \* "up", "exited" (process.exit(0)), "crashed" (uncaught exception)
  phase,            \* per request: position of its handler chain
  totalFiles,       \* per request: req.files.length
  processId,        \* per request: the const processId of its handler
  clientOpen,       \* per request: the uploading client's connection is open
  proc,             \* per request: its python process, "none" | "live" | "exited"
                    \* ('exit' emitted, stdio not ended yet) | "closed"
  signalled,        \* per request: a termination signal reached its live process
  killCalls,        \* per request: number of kill() calls made on its handle
  exitCode,         \* per request: the code its 'close' callback received
  result,           \* per request: the stdout chunks appended to `result`
  processedImages,  \* per request: the let processedImages of its handler
  output,           \* per request: the parsed record held for the delayed res.json
  trace,            \* per request: the sendProgress calls and the response, in order
  activeProcesses,  \* the Map processId -> process handle
  jsonFile,         \* temp_paths.json: 0 when absent, else the request whose paths it holds
  progressStore,    \* the Map clientId -> SSE response
  subId,            \* per subscriber: the const clientId of its handler
  subOpen,          \* per subscriber: "idle" | "open" | "gone" (its channel is broken,
                    \* 'close' not yet delivered) | "closed"
  channel,          \* per subscriber: the messages written to its response
  writes,           \* per subscriber: number of res.write calls made on its response
  cleanups,         \* per request: cleanupPythonProcess calls made by its own callbacks
  downloads         \* the /api/download requests handled so far, one record each

vars == << clock, server, phase, totalFiles, processId, clientOpen, proc, signalled,
           killCalls, exitCode, result, processedImages, output, trace, activeProcesses,
           jsonFile, progressStore, subId, subOpen, channel, writes, cleanups, downloads >>

jobVars == << phase, totalFiles, processId, proc, exitCode, result, processedImages,
             output, trace, cleanups >>
hubVars == << progressStore, subId, subOpen, channel, writes >>
supVars == << activeProcesses, signalled, killCalls >>

\* ------------------------------------------------------ pure helpers
\* Math.round(p / t * 100) for p >= 0, t > 0: round half up.
RoundPercent(p, t) == (200 * p + t) \div (2 * t)

\* path.basename of a path given as its segments.
Basename(p) == p[Len(p)]

Event(step, sp, tot, done, det) ==
  [type |-> "event", currentStep |-> step, stepProgress |-> sp,
   totalFiles |-> tot, processedFiles |-> done, details |-> det]

\* res.status(st).json(body); open tells whether the client is still connected.
Response(st, body, open) == [type |-> "response", status |-> st, body |-> body, open |-> open]

ConnectingEvent == Event("Connecting...", 0, 0, 0, <<"Establishing connection...">>)

HasKind(chunk, kind) == \E i \in 1..Len(chunk) : chunk[i].k = kind

FirstOfKind(chunk, kind) ==
  chunk[CHOOSE i \in 1..Len(chunk) :
          /\ chunk[i].k = kind
          /\ \A j \in 1..(i - 1) : chunk[j].k # kind]

\* result += output: the pieces received, in order.
RECURSIVE Pieces(_)
Pieces(chunks) ==
  IF chunks = <<>> THEN <<>> ELSE Head(chunks) \o Pieces(Tail(chunks))

\* The head h followed by the tail x is the text of the line x.of.
Completes(h, x) ==
  /\ x.k = "tail"
  /\ \/ h.text = "img" /\ x.of.k = "img"
     \/ h.text = "json" /\ x.of.k = "json" /\ x.of.status = "success" /\ x.of.path # <<>>

\* The line that ends with piece x when the heads in open precede it without
\* a newline in between, read as lines 305-334 and the marker tests read it.
\* Tails are tails of "image N of M" lines and of success records with an
\* output_path.
\*   no head before: a whole line is itself, a stray tail is plain text
\*   tail of an image line: right after an ImgHead the text holds "Processing
\*     image <n> of <m>", whatever precedes that head; after a JsonHead it
\*     holds no marker
\*   tail of a record: after a JsonHead alone it is the record; with only
\*     ImgHeads in between their text lies inside the key, so the line parses
\*     as the record with the key "output_Processing ima...path" in place of
\*     output_path; with another JsonHead in between it does not parse; when
\*     the text starts with an ImgHead it does not start with "{"
\*   whole line after heads: a json head in front of a line ending with "}"
\*     looks structured and does not parse; otherwise the line keeps the
\*     marker of the whole line, if any
JoinLine(open, x) ==
  IF open = <<>>
    THEN IF x.k = "tail" THEN TxtLine ELSE x
  ELSE IF x.k = "tail"
    THEN IF x.of.k = "img"
           THEN IF open[Len(open)].text = "img" THEN x.of ELSE TxtLine
         ELSE IF open[1].text = "json"
           THEN IF Len(open) = 1
                  THEN x.of
                ELSE IF \A i \in 2..Len(open) : open[i].text = "img"
                  THEN [x.of EXCEPT !.path = <<>>]
                ELSE BadLine
         ELSE TxtLine
  ELSE IF open[1].text = "json" /\ x.k \in {"json", "bad"}
    THEN BadLine
  ELSE IF x.k \in {"img", "cls", "gen"}
    THEN x
  ELSE TxtLine

RECURSIVE SplitLines(_, _)
SplitLines(pieces, open) ==
  IF pieces = <<>>
    THEN IF open = <<>> THEN <<>> ELSE << TxtLine >>
  ELSE IF Head(pieces).k = "head"
    THEN SplitLines(Tail(pieces), Append(open, Head(pieces)))
  ELSE << JoinLine(open, Head(pieces)) >> \o SplitLines(Tail(pieces), <<>>)

\* result.split('\n') on the text received: the lines of the joined chunks.
Flatten(chunks) == SplitLines(Pieces(chunks), <<>>)

\* ------------------------------------------------ progress broadcast hub
Registered(store) == { store[id] : id \in DOMAIN store } \ {0}

\* sendProgress without the try / catch around res.write: the first failing
\* write (in Map order, the order of the client identifiers) ends the forEach.
sendProgress_NoCatch(H, store, gone, data) ==
  LET failing == { id \in DOMAIN store : store[id] # 0 /\ store[id] \in gone }
      reached(id) == \A f \in failing : id <= f
      visited == { store[id] : id \in { x \in DOMAIN store : store[x] # 0 /\ reached(x) } }
  IN  [ch |-> [s \in DOMAIN H.ch |->
                 IF s \in visited /\ s \notin gone THEN Append(H.ch[s], data) ELSE H.ch[s]],
       wr |-> [s \in DOMAIN H.wr |->
                 IF s \in visited THEN H.wr[s] + 1 ELSE H.wr[s]]]

\* sendProgress(data) on the hub state H = [ch, wr] (the messages received and
\* the res.write calls made, per subscriber): progressStore.forEach writes
\* data to every registered response inside its own try / catch; gone is the
\* set of subscribers whose res.write fails.
sendProgress(H, store, gone, data) ==
  [ch |-> [s \in DOMAIN H.ch |->
             IF s \in Registered(store) /\ s \notin gone THEN Append(H.ch[s], data) ELSE H.ch[s]],
   wr |-> [s \in DOMAIN H.wr |->
             IF s \in Registered(store) THEN H.wr[s] + 1 ELSE H.wr[s]]]

RECURSIVE sendProgressAll(_, _, _, _)
sendProgressAll(H, store, gone, entries) ==
  IF entries = <<>> THEN H
  ELSE sendProgressAll(IF Head(entries).type = "event"
                         THEN sendProgress(H, store, gone, Head(entries))
                         ELSE H,
                       store, gone, Tail(entries))

\* ------------------------------------------------------ output correlator
\* OnStdoutData whose 'classified as' branch reports processedFiles: 0, as the
\* catch blocks of the upload handler do.
OnStdoutData_ClsZero(chunk, done, total) ==
  IF HasKind(chunk, "img")
    THEN LET n == FirstOfKind(chunk, "img").n
         IN  [done   |-> n,
              events |-> << Event("Analyzing Images", RoundPercent(n, total), total, n,
                                  <<"Analyzing image", n, total>>) >>]
  ELSE IF HasKind(chunk, "cls")
    THEN [done   |-> done,
          events |-> << Event("Analyzing Images", RoundPercent(done, total), total, 0,
                              <<"Last image classified as", FirstOfKind(chunk, "cls").cat>>) >>]
  ELSE IF HasKind(chunk, "gen")
    THEN [done   |-> done,
          events |-> << Event("Creating Presentation", 90, total, total,
                              <<"Generating PowerPoint presentation with processed images">>) >>]
  ELSE [done |-> done, events |-> <<>>]

\* The stdout 'data' callback on one chunk: the new processedImages and the
\* events it publishes (none or one: the branches are an if / else-if chain
\* over the whole chunk, and match() returns the first occurrence).
OnStdoutData(chunk, done, total) ==
  IF HasKind(chunk, "img")
    THEN LET n == FirstOfKind(chunk, "img").n
         IN  [done   |-> n,
              events |-> << Event("Analyzing Images", RoundPercent(n, total), total, n,
                                  <<"Analyzing image", n, total>>) >>]
  ELSE IF HasKind(chunk, "cls")
    THEN [done   |-> done,
          events |-> << Event("Analyzing Images", RoundPercent(done, total), total, done,
                              <<"Last image classified as", FirstOfKind(chunk, "cls").cat>>) >>]
  ELSE IF HasKind(chunk, "gen")
    THEN [done   |-> done,
          events |-> << Event("Creating Presentation", 90, total, total,
                              <<"Generating PowerPoint presentation with processed images">>) >>]
  ELSE [done |-> done, events |-> <<>>]

\* line.trim().startsWith('{') && line.trim().endsWith('}')
LooksStructured(line) == line.k \in {"bad", "json"}

\* FindJsonLine without the reverse(): the first structured-looking line.
FindJsonLine_First(lines) ==
  IF \E i \in 1..Len(lines) : LooksStructured(lines[i])
    THEN CHOOSE i \in 1..Len(lines) :
           /\ LooksStructured(lines[i])
           /\ \A j \in 1..(i - 1) : ~LooksStructured(lines[j])
    ELSE 0

\* result.split('\n').filter(line => line.trim()).reverse().find(LooksStructured):
\* the index in lines of the last structured-looking line, 0 when there is none.
FindJsonLine(lines) ==
  IF \E i \in 1..Len(lines) : LooksStructured(lines[i])
    THEN CHOOSE i \in 1..Len(lines) :
           /\ LooksStructured(lines[i])
           /\ \A j \in (i + 1)..Len(lines) : ~LooksStructured(lines[j])
    ELSE 0

\* Correlate degrading to a success answer when the output has no record.
Correlate_Degrade(chunks) ==
  LET lines == Flatten(chunks)
      i     == FindJsonLine(lines)
  IN  IF i = 0
        THEN [ok |-> TRUE, body |-> << "success", <<>>, "none", <<>> >>]
      ELSE IF lines[i].k = "bad"
        THEN [ok |-> FALSE, msg |-> "SyntaxError"]
      ELSE IF lines[i].status = "success"
        THEN IF lines[i].path = <<>>
               THEN [ok |-> FALSE, msg |-> "TypeError"]
               ELSE [ok |-> TRUE,
                     body |-> << "success", lines[i].path, lines[i].cats,
                                 <<"api", "download", Basename(lines[i].path)>> >>]
      ELSE [ok |-> FALSE,
            msg |-> IF lines[i].error # "none" THEN lines[i].error ELSE "Processing failed"]

\* The try block of the 'close' callback for exit code 0: either the body of
\* the success response or the message of the exception it throws.
Correlate(chunks) ==
  LET lines == Flatten(chunks)
      i     == FindJsonLine(lines)
  IN  IF i = 0
        THEN [ok |-> FALSE, msg |-> "No JSON output found in Python response"]
      ELSE IF lines[i].k = "bad"
        THEN [ok |-> FALSE, msg |-> "SyntaxError"]
      ELSE IF lines[i].status = "success"
        THEN IF lines[i].path = <<>>
               THEN [ok |-> FALSE, msg |-> "TypeError"]
               ELSE [ok |-> TRUE,
                     body |-> << "success", lines[i].path, lines[i].cats,
                                 <<"api", "download", Basename(lines[i].path)>> >>]
      ELSE [ok |-> FALSE,
            msg |-> IF lines[i].error # "none" THEN lines[i].error ELSE "Processing failed"]

\* ------------------------------------------------------------ supervisor
\* cleanupPythonProcess without the activeProcesses.delete(processId).
cleanupPythonProcess_NoDelete(S, id, throws, live) ==
  LET h == S.ap[id]
  IN  IF h # NoProc
        THEN [ap |-> S.ap,
              kc |-> [S.kc EXCEPT ![h] = @ + 1],
              sg |-> [S.sg EXCEPT ![h] = @ \/ (h \in live /\ h \notin throws)]]
        ELSE S

\* cleanupPythonProcess without the try / catch around process.kill(): a
\* throwing kill() leaves the function before activeProcesses.delete.
cleanupPythonProcess_NoCatch(S, id, throws, live) ==
  LET h == S.ap[id]
  IN  IF h # NoProc
        THEN IF h \in throws
               THEN [ap |-> S.ap, kc |-> [S.kc EXCEPT ![h] = @ + 1], sg |-> S.sg]
               ELSE [ap |-> [S.ap EXCEPT ![id] = NoProc],
                     kc |-> [S.kc EXCEPT ![h] = @ + 1],
                     sg |-> [S.sg EXCEPT ![h] = @ \/ h \in live]]
        ELSE S

\* cleanupPythonProcess(processId) on the supervisor state S = [ap, kc, sg]
\* (the table, the kill() calls per handle, the handles a signal reached).
\* throws is the set of handles whose kill() throws, live the set of handles
\* whose process has not exited (kill() on an exited child sends nothing).
cleanupPythonProcess(S, id, throws, live) ==
  LET h == S.ap[id]
  IN  IF h # NoProc
        THEN [ap |-> [S.ap EXCEPT ![id] = NoProc],
              kc |-> [S.kc EXCEPT ![h] = @ + 1],
              sg |-> [S.sg EXCEPT ![h] = @ \/ (h \in live /\ h \notin throws)]]
        ELSE S

\* for (const [processId] of activeProcesses) cleanupPythonProcess(processId)
RECURSIVE Sweep(_, _, _, _)
Sweep(S, ids, throws, live) ==
  IF ids = {} THEN S
  ELSE LET id == CHOOSE x \in ids : \A y \in ids : x <= y
       IN  Sweep(cleanupPythonProcess(S, id, throws, live), ids \ {id}, throws, live)

Sup == [ap |-> activeProcesses, kc |-> killCalls, sg |-> signalled]

Live == { r \in Reqs : proc[r] = "live" }

Hub == [ch |-> channel, wr |-> writes]

Gone == { s \in Subs : subOpen[s] = "gone" }

\* --------------------------------------------------------------- Init
Init ==
  /\ clock = 1
  /\ server = "up"
  /\ phase = [r \in Reqs |-> "idle"]
  /\ totalFiles = [r \in Reqs |-> 0]
  /\ processId = [r \in Reqs |-> 0]
  /\ clientOpen = [r \in Reqs |-> TRUE]
  /\ proc = [r \in Reqs |-> "none"]
  /\ signalled = [r \in Reqs |-> FALSE]
  /\ killCalls = [r \in Reqs |-> 0]
  /\ exitCode = [r \in Reqs |-> NotClosed]
  /\ result = [r \in Reqs |-> <<>>]
  /\ processedImages = [r \in Reqs |-> 0]
  /\ output = [r \in Reqs |-> <<>>]
  /\ trace = [r \in Reqs |-> <<>>]
  /\ activeProcesses = [id \in Clock |-> NoProc]
  /\ jsonFile = 0
  /\ progressStore = [id \in Clock |-> 0]
  /\ subId = [s \in Subs |-> 0]
  /\ subOpen = [s \in Subs |-> "idle"]
  /\ channel = [s \in Subs |-> <<>>]
  /\ writes = [s \in Subs |-> 0]
  /\ cleanups = [r \in Reqs |-> 0]
  /\ downloads = <<>>

\* ------------------------------------------------------------ actions
\* What one callback of request r publishes and answers, in call order.
Emit(r, entries) ==
  /\ trace' = [trace EXCEPT ![r] = @ \o entries]
  /\ LET H == sendProgressAll(Hub, progressStore, Gone, entries)
     IN  /\ channel' = H.ch
         /\ writes' = H.wr

\* Outcomes of the body of the upload handler after the 'Files uploaded' event.
\*   ok          the worker is spawned
\*   writeThrow  fs.writeFileSync throws              (outer catch)
\*   spawnThrow  spawn() throws synchronously         (inner catch)
\*   spawnError  spawn() returns a child that emits 'error' on the next tick
\*               (executable missing); no 'error' listener is attached, so
\*               the emit throws and the server dies of the uncaught exception
\*   spawnNoStdio spawn() fails with EMFILE / ENFILE: it schedules 'error' for
\*               the next tick and returns a child without stdio streams, so
\*               after activeProcesses.set the call pythonProcess.stdout.on
\*               throws into the inner catch; on the next tick the unhandled
\*               'error' ends the server
SpawnOutcomes == {"ok", "writeThrow", "spawnThrow", "spawnError", "spawnNoStdio"}

\* UploadEntries publishing the 'Files uploaded' event before the empty check.
UploadEntries_PublishFirst(n, outcome, open) ==
  LET uploaded == Event("Files uploaded", 100, n, n, <<"All files uploaded successfully">>)
  IN  IF n = 0
        THEN << uploaded, Response(400, <<"error", "No files uploaded">>, open) >>
      ELSE IF outcome = "writeThrow"
        THEN << uploaded,
                Event("Error", 100, n, 0, <<"Error during upload process">>),
                Response(500, <<"error", "Error uploading files">>, open) >>
      ELSE IF outcome \in {"spawnThrow", "spawnNoStdio"}
        THEN << uploaded,
                Event("Error", 100, n, 0, <<"Error running Python process">>),
                Response(500, <<"error", "Error running Python process">>, open) >>
      ELSE << uploaded >>

\* The sendProgress and res.json calls of the upload handler, in call order.
UploadEntries(n, outcome, open) ==
  LET uploaded == Event("Files uploaded", 100, n, n, <<"All files uploaded successfully">>)
  IN  IF n = 0
        THEN << Response(400, <<"error", "No files uploaded">>, open) >>
      ELSE IF outcome = "writeThrow"
        THEN << uploaded,
                Event("Error", 100, n, 0, <<"Error during upload process">>),
                Response(500, <<"error", "Error uploading files">>, open) >>
      ELSE IF outcome \in {"spawnThrow", "spawnNoStdio"}
        THEN << uploaded,
                Event("Error", 100, n, 0, <<"Error running Python process">>),
                Response(500, <<"error", "Error running Python process">>, open) >>
      ELSE << uploaded >>

\* app.post('/api/upload'): request r arrives with n files.
Upload(r, n, outcome) ==
  /\ server = "up"
  /\ phase[r] = "idle"
  /\ \A q \in 1..(r - 1) : phase[q] # "idle"
  /\ processId' = [processId EXCEPT ![r] = clock]
  /\ Emit(r, UploadEntries(n, outcome, clientOpen[r]))
  /\ IF n = 0
       THEN /\ phase' = [phase EXCEPT ![r] = "rejected"]
            /\ UNCHANGED << totalFiles, proc, activeProcesses, jsonFile, server >>
       ELSE /\ totalFiles' = [totalFiles EXCEPT ![r] = n]
            /\ CASE outcome = "writeThrow" ->
                    /\ phase' = [phase EXCEPT ![r] = "done"]
                    /\ UNCHANGED << proc, activeProcesses, jsonFile, server >>
                 [] outcome = "spawnThrow" ->
                    /\ phase' = [phase EXCEPT ![r] = "done"]
                    /\ jsonFile' = r
                    /\ UNCHANGED << proc, activeProcesses, server >>
                 [] outcome = "spawnError" ->
                    /\ phase' = [phase EXCEPT ![r] = "spawnFailed"]
                    /\ jsonFile' = r
                    /\ activeProcesses' = [activeProcesses EXCEPT ![clock] = r]
                    /\ server' = "crashed"
                    /\ UNCHANGED proc
                 [] outcome = "spawnNoStdio" ->
                    /\ phase' = [phase EXCEPT ![r] = "done"]
                    /\ jsonFile' = r
                    /\ activeProcesses' = [activeProcesses EXCEPT ![clock] = r]
                    /\ server' = "crashed"
                    /\ UNCHANGED proc
                 [] outcome = "ok" ->
                    /\ phase' = [phase EXCEPT ![r] = "running"]
                    /\ jsonFile' = r
                    /\ activeProcesses' = [activeProcesses EXCEPT ![clock] = r]
                    /\ proc' = [proc EXCEPT ![r] = "live"]
                    /\ UNCHANGED server
  /\ UNCHANGED << clock, clientOpen, signalled, killCalls, exitCode, result, processedImages,
                  output, progressStore, subId, subOpen, cleanups, downloads >>

\* pythonProcess.stdout.on('data'): the worker of request r writes chunk.
StdoutData(r, chunk) ==
  /\ server = "up"
  /\ phase[r] = "running"
  /\ LET d == OnStdoutData(chunk, processedImages[r], totalFiles[r])
     IN  /\ result' = [result EXCEPT ![r] = Append(@, chunk)]
         /\ processedImages' = [processedImages EXCEPT ![r] = d.done]
         /\ Emit(r, d.events)
  /\ UNCHANGED << clock, server, phase, totalFiles, processId, clientOpen, proc, signalled,
                  killCalls, exitCode, output, activeProcesses, jsonFile, progressStore,
                  subId, subOpen, cleanups, downloads >>

\* The worker of request r exits while its stdout is still open (held by a
\* process it started, or not yet drained): node emits 'exit', for which the
\* handler has no listener; 'close' and further 'data' events come later.
\* From now on kill() on its handle sends nothing.
Exit(r) ==
  /\ server = "up"
  /\ phase[r] = "running"
  /\ proc[r] = "live"
  /\ proc' = [proc EXCEPT ![r] = "exited"]
  /\ UNCHANGED << clock, server, phase, totalFiles, processId, clientOpen, signalled,
                  killCalls, exitCode, result, processedImages, output, trace,
                  activeProcesses, jsonFile, hubVars, cleanups, downloads >>

\* CloseEntries answering before it publishes the Error event.
CloseEntries_RespondFirst(code, chunks, total, done, open) ==
  LET c == Correlate(chunks)
  IN  IF code # 0
        THEN << Response(500, <<"error", "Python processing failed">>, open),
                Event("Error", 100, total, done, <<"An error occurred during processing">>) >>
      ELSE IF c.ok
        THEN << Event("Complete", 100, total, total,
                      <<"Processing complete! PowerPoint presentation generated.">>) >>
      ELSE << Response(500, <<"error", "Error processing Python output: ", c.msg>>, open),
              Event("Error", 100, total, done, <<"Error processing Python output">>) >>

\* CloseEntries without the early return on code !== 0.
CloseEntries_IgnoreCode(code, chunks, total, done, open) ==
  LET c == Correlate(chunks)
  IN  IF c.ok
        THEN << Event("Complete", 100, total, total,
                      <<"Processing complete! PowerPoint presentation generated.">>) >>
      ELSE << Event("Error", 100, total, done, <<"Error processing Python output">>),
              Response(500, <<"error", "Error processing Python output: ", c.msg>>, open) >>

\* CloseEntries answering the success at once, next to the timer's answer.
CloseEntries_AlsoRespond(code, chunks, total, done, open) ==
  LET c == Correlate(chunks)
  IN  IF code # 0
        THEN << Event("Error", 100, total, done, <<"An error occurred during processing">>),
                Response(500, <<"error", "Python processing failed">>, open) >>
      ELSE IF c.ok
        THEN << Event("Complete", 100, total, total,
                      <<"Processing complete! PowerPoint presentation generated.">>),
                Response(200, c.body, open) >>
      ELSE << Event("Error", 100, total, done, <<"Error processing Python output">>),
              Response(500, <<"error", "Error processing Python output: ", c.msg>>, open) >>

\* The sendProgress and res.json calls the 'close' callback makes itself, in
\* call order (the success response is left to the timer).
CloseEntries(code, chunks, total, done, open) ==
  LET c == Correlate(chunks)
  IN  IF code # 0
        THEN << Event("Error", 100, total, done, <<"An error occurred during processing">>),
                Response(500, <<"error", "Python processing failed">>, open) >>
      ELSE IF c.ok
        THEN << Event("Complete", 100, total, total,
                      <<"Processing complete! PowerPoint presentation generated.">>) >>
      ELSE << Event("Error", 100, total, done, <<"Error processing Python output">>),
              Response(500, <<"error", "Error processing Python output: ", c.msg>>, open) >>

\* The 'close' callback arms the response timer: exit code 0 and a success record.
CloseSucceeds(code, chunks) == code = 0 /\ Correlate(chunks).ok

\* pythonProcess.on('close'): the worker of request r has exited with code.
Close(r, code, throws) ==
  /\ server = "up"
  /\ phase[r] = "running"
  /\ LET S == cleanupPythonProcess(Sup, processId[r], throws, Live \ {r})
     IN  /\ activeProcesses' = S.ap
         /\ killCalls' = S.kc
         /\ signalled' = S.sg
  /\ jsonFile' = 0
  /\ proc' = [proc EXCEPT ![r] = "closed"]
  /\ exitCode' = [exitCode EXCEPT ![r] = code]
  /\ cleanups' = [cleanups EXCEPT ![r] = @ + 1]
  /\ Emit(r, CloseEntries(code, result[r], totalFiles[r], processedImages[r], clientOpen[r]))
  /\ IF CloseSucceeds(code, result[r])
       THEN /\ output' = [output EXCEPT ![r] = Correlate(result[r]).body]
            /\ phase' = [phase EXCEPT ![r] = "responding"]
       ELSE /\ phase' = [phase EXCEPT ![r] = "done"]
            /\ UNCHANGED output
  /\ UNCHANGED << clock, server, totalFiles, processId, clientOpen, result, processedImages,
                  progressStore, subId, subOpen, downloads >>

\* setTimeout(() => res.json(output), 500) of the success branch fires.
DelayedResponse(r) ==
  /\ server = "up"
  /\ phase[r] = "responding"
  /\ Emit(r, << Response(200, output[r], clientOpen[r]) >>)
  /\ phase' = [phase EXCEPT ![r] = "done"]
  /\ UNCHANGED << clock, server, totalFiles, processId, clientOpen, proc, signalled, killCalls,
                  exitCode, result, processedImages, output, activeProcesses, jsonFile,
                  progressStore, subId, subOpen, cleanups, downloads >>

\* The uploading client of request r goes away before its response; the
\* upload handler registers no listener for it.
ClientDisconnect(r) ==
  /\ server = "up"
  /\ phase[r] \in {"running", "responding"}
  /\ clientOpen[r]
  /\ clientOpen' = [clientOpen EXCEPT ![r] = FALSE]
  /\ UNCHANGED << clock, server, jobVars, supVars, jsonFile, hubVars, downloads >>

\* process.on('SIGTERM') / process.on('SIGINT')
Shutdown(throws) ==
  /\ server = "up"
  /\ LET S == Sweep(Sup, { id \in Clock : activeProcesses[id] # NoProc }, throws, Live)
     IN  /\ activeProcesses' = S.ap
         /\ killCalls' = S.kc
         /\ signalled' = S.sg
  /\ server' = "exited"
  /\ UNCHANGED << clock, jobVars, clientOpen, jsonFile, hubVars, downloads >>

\* Subscribe without the initial res.write.
Subscribe_NoConnecting(s) ==
  /\ server = "up"
  /\ subOpen[s] = "idle"
  /\ \A q \in 1..(s - 1) : subOpen[q] # "idle"
  /\ subId' = [subId EXCEPT ![s] = clock]
  /\ progressStore' = [progressStore EXCEPT ![clock] = s]
  /\ subOpen' = [subOpen EXCEPT ![s] = "open"]
  /\ UNCHANGED << clock, server, jobVars, clientOpen, supVars, jsonFile, downloads,
                  channel, writes >>

\* app.get('/api/progress'): subscriber s connects.
Subscribe(s) ==
  /\ server = "up"
  /\ subOpen[s] = "idle"
  /\ \A q \in 1..(s - 1) : subOpen[q] # "idle"
  /\ channel' = [channel EXCEPT ![s] = << ConnectingEvent >>]
  /\ writes' = [writes EXCEPT ![s] = 1]
  /\ subId' = [subId EXCEPT ![s] = clock]
  /\ progressStore' = [progressStore EXCEPT ![clock] = s]
  /\ subOpen' = [subOpen EXCEPT ![s] = "open"]
  /\ UNCHANGED << clock, server, jobVars, clientOpen, supVars, jsonFile, downloads >>

\* req.on('close') of the progress endpoint: subscriber s disconnects.
SubscriberClose(s) ==
  /\ server = "up"
  /\ subOpen[s] \in {"open", "gone"}
  /\ progressStore' = [progressStore EXCEPT ![subId[s]] = 0]
  /\ subOpen' = [subOpen EXCEPT ![s] = "closed"]
  /\ UNCHANGED << clock, server, jobVars, clientOpen, supVars, jsonFile, subId, channel,
                  writes, downloads >>

\* The connection of subscriber s breaks; until its 'close' event is delivered
\* the response stays registered and writes to it fail.
SubscriberBreak(s) ==
  /\ server = "up"
  /\ subOpen[s] = "open"
  /\ subOpen' = [subOpen EXCEPT ![s] = "gone"]
  /\ UNCHANGED << clock, server, jobVars, clientOpen, supVars, jsonFile, progressStore,
                  subId, channel, writes, downloads >>

\* Date.now() advances.
Tick ==
  /\ server = "up"
  /\ clock < MaxClock
  /\ clock' = clock + 1
  /\ UNCHANGED << server, jobVars, clientOpen, supVars, jsonFile, hubVars, downloads >>

\* ------------------------------------------------------ download handler
\* File names are sequences of characters.
ExtPptx       == << ".", "p", "p", "t", "x" >>
NameEmpty     == << >>
NameReport    == << "x", ".", "p", "p", "t", "x" >>
NameInDir     == << "a", "/", "x", ".", "p", "p", "t", "x" >>
NamePasswd    == << ".", ".", "/", ".", ".", "/", "e", "t", "c", "/", "p", "w" >>
NameUpReport  == << ".", ".", "/", "x", ".", "p", "p", "t", "x" >>
NameTwoDots   == << "x", ".", ".", "p", "p", "t", "x" >>
NameText      == << "x", ".", "t", "x", "t" >>
NameExtInside == << "x", ".", "p", "p", "t", "x", ".", "t" >>

FileNames == { NameEmpty, NameReport, NameInDir, NamePasswd, NameUpReport, NameTwoDots,
               NameText, NameExtInside }

\* String.prototype.includes
Includes(str, sub) ==
  \E i \in 1..(Len(str) - Len(sub) + 1) : SubSeq(str, i, i + Len(sub) - 1) = sub

\* String.prototype.endsWith
EndsWith(str, suf) ==
  Len(str) >= Len(suf) /\ SubSeq(str, Len(str) - Len(suf) + 1, Len(str)) = suf

\* The filename check without filename.includes('..').
RejectsFilename_NoTraversalCheck(filename) ==
  filename = << >> \/ ~EndsWith(filename, ExtPptx)

\* !filename || filename.includes('..') || !filename.endsWith('.pptx')
RejectsFilename(filename) ==
  filename = << >> \/ Includes(filename, << ".", "." >>) \/ ~EndsWith(filename, ExtPptx)

\* What the read stream does after the handler has returned.
\*   error  'error' listener: 500 when no header was sent, else nothing (the
\*          response is left as it is, never ended)
\*   data   pipe writes a piece of the file: status 200 and bytes go out
\*   end    pipe ends the response
StreamEvents == {"error", "data", "end"}

\* The download handler on filename, up to its return; exists is what
\* fs.existsSync answers. fs lists the file-system calls made, status 0 says
\* that no status is decided yet, body "cut" that the body is incomplete,
\* bytes tells whether file bytes reached the client, stream is "open" while
\* the listeners of the read stream can still be called.
DownloadHandler(filename, exists) ==
  IF RejectsFilename(filename)
    THEN [name |-> filename, exists |-> exists, status |-> 400,
          body |-> "Invalid filename", fs |-> << >>, bytes |-> FALSE, stream |-> "none"]
  ELSE IF ~exists
    THEN [name |-> filename, exists |-> exists, status |-> 404,
          body |-> "File not found", fs |-> << "existsSync" >>, bytes |-> FALSE,
          stream |-> "none"]
  ELSE [name |-> filename, exists |-> exists, status |-> 0,
        body |-> "none", fs |-> << "existsSync", "createReadStream" >>, bytes |-> FALSE,
        stream |-> "open"]

\* The response d after the read stream's event ev.
StreamStep(d, ev) ==
  IF ev = "error"
    THEN IF d.status = 0
           THEN [d EXCEPT !.status = 500, !.body = "Error streaming file", !.stream = "failed"]
           ELSE [d EXCEPT !.stream = "failed"]
  ELSE IF ev = "data"
    THEN [d EXCEPT !.status = 200, !.body = "cut", !.bytes = TRUE]
  ELSE [d EXCEPT !.status = 200, !.body = "file", !.stream = "done"]

\* app.get('/api/download/:filename'): the handler runs and returns.
Download(filename, exists) ==
  /\ server = "up"
  /\ downloads' = Append(downloads, DownloadHandler(filename, exists))
  /\ UNCHANGED << clock, server, jobVars, clientOpen, supVars, jsonFile, hubVars >>

\* A listener of the read stream of download i is called.
DownloadStream(i, ev) ==
  /\ server = "up"
  /\ downloads[i].stream = "open"
  /\ downloads' = [downloads EXCEPT ![i] = StreamStep(@, ev)]
  /\ UNCHANGED << clock, server, jobVars, clientOpen, supVars, jsonFile, hubVars >>

\* Codes the 'close' event of r's worker can carry: its own exit status, or
\* null when a signal ended it, the server's kill() or any other (the kernel's
\* out-of-memory killer, a crash in a native library).
CodesOf(r) == ExitCodes

\* ------------------------------------------------- lifecycle specification
\* Several uploads in flight, subscribers, disconnects and shutdown; workers
\* write chunks of SmallChunks.
UploadRequest   == \E r \in Reqs, n \in 0..MaxBatch, o \in SpawnOutcomes : Upload(r, n, o)
WorkerExit      == \E r \in Reqs : Exit(r)
WorkerData      == \E r \in Reqs, chunk \in SmallChunks :
                      Len(result[r]) < MaxData /\ StdoutData(r, chunk)
WorkerClose     == \E r \in Reqs : \E code \in CodesOf(r), throws \in {{}, Reqs} :
                      Close(r, code, throws)
ResponseTimer   == \E r \in Reqs : DelayedResponse(r)
UploaderGone    == \E r \in Reqs : ClientDisconnect(r)
Signal          == \E throws \in SUBSET Reqs : Shutdown(throws)

Next ==
  \/ UploadRequest
  \/ WorkerData
  \/ WorkerExit
  \/ WorkerClose
  \/ ResponseTimer
  \/ UploaderGone
  \/ Signal
  \/ Tick

Spec == Init /\ [][Next]_vars

\* ------------------------------------------------ correlator specification
\* One upload whose worker writes up to MaxChunks chunks of ChunkSet.
UploadOne   == \E n \in 0..MaxFiles, o \in SpawnOutcomes : Upload(1, n, o)
DataOne     == \E chunk \in ChunkSet : Len(result[1]) < MaxChunks /\ StdoutData(1, chunk)
ExitOne     == Exit(1)
CloseOne    == \E code \in CodesOf(1), throws \in {{}, Reqs} : Close(1, code, throws)
RespondOne  == DelayedResponse(1)

NextCorrelator ==
  \/ UploadOne
  \/ DataOne
  \/ ExitOne
  \/ CloseOne
  \/ RespondOne

SpecCorrelator == Init /\ [][NextCorrelator]_vars

\* ------------------------------------------------------- hub specification
\* Uploads whose workers start and close without output (each Job ends in an
\* Error event) while /api/progress subscribers
\* connect, break and disconnect.
HubUpload       == \E r \in Reqs, n \in 1..MaxBatch : Upload(r, n, "ok")
HubClose        == \E r \in Reqs : \E code \in CodesOf(r) : Close(r, code, {})
ProgressRequest == \E s \in Subs : Subscribe(s)
ProgressGone    == \E s \in Subs : SubscriberClose(s)
ProgressBroken  == \E s \in Subs : SubscriberBreak(s)

NextHub ==
  \/ HubUpload
  \/ HubClose
  \/ ProgressRequest
  \/ ProgressGone
  \/ ProgressBroken
  \/ Tick

SpecHub == Init /\ [][NextHub]_vars

\* -------------------------------------------------- download specification
\* Download requests; the streams of the accepted ones proceed in any order.
DownloadRequest ==
  \E filename \in FileNames, exists \in BOOLEAN :
    Len(downloads) < MaxDownloads /\ Download(filename, exists)

StreamProgress ==
  \E i \in 1..Len(downloads), ev \in StreamEvents : DownloadStream(i, ev)

NextDownload ==
  \/ DownloadRequest
  \/ StreamProgress

SpecDownload == Init /\ [][NextDownload]_vars

\* ------------------------------------------------------ trace vocabulary
IsEvent(e)    == e.type = "event"
IsResponse(e) == e.type = "response"
IsTerminal(e) == IsEvent(e) /\ e.currentStep \in {"Complete", "Error"} /\ e.stepProgress = 100

Terminals(r) == { i \in 1..Len(trace[r]) : IsTerminal(trace[r][i]) }
Responses(r) == { i \in 1..Len(trace[r]) : IsResponse(trace[r][i]) }
EventsOf(r)  == { i \in 1..Len(trace[r]) : IsEvent(trace[r][i]) }

\* Request r carried files, so a Job exists for it.
IsJob(r) == totalFiles[r] > 0

\* Nothing more will be published for the Job of r: it was answered, its
\* 'close' callback ran, or its spawn failed.
JobOver(r) == IsJob(r) /\ phase[r] \in {"done", "responding", "spawnFailed"}

\* ------------------------------------------------------------------ C1
\* C1: every upload request with a non-empty batch gets exactly one terminal
\* ProgressEvent (Complete or Error, stepProgress 100) and no event of the
\* Job follows it, whatever the worker's output, exit code or spawn outcome.
C1_ExactlyOneTerminalLast ==
  \A r \in Reqs :
    JobOver(r) =>
      /\ Cardinality(Terminals(r)) = 1
      /\ \A i \in Terminals(r) : \A j \in EventsOf(r) : j <= i

\* ------------------------------------------------------------------ C2
\* C2: for every Job the terminal ProgressEvent is published before the HTTP
\* response of its upload request is sent.
C2_TerminalBeforeResponse ==
  \A r \in Reqs :
    IsJob(r) => \A i \in Responses(r) : \E j \in Terminals(r) : j < i

\* A Job answered with the success payload, and one answered with an error.
C2_Witness ==
  /\ \E r \in Reqs : IsJob(r) /\ \E i \in Responses(r) : trace[r][i].status = 200
  /\ \E r \in Reqs : IsJob(r) /\ \E i \in Responses(r) : trace[r][i].status = 500

\* ------------------------------------------------------------------ C3
\* C3: at every instant at most one live worker process exists per Job
\* identifier, also when two requests read the same clock value.
C3_OneLiveWorkerPerId ==
  \A r1, r2 \in Reqs :
    (r1 # r2 /\ proc[r1] = "live" /\ proc[r2] = "live") => processId[r1] # processId[r2]

\* ------------------------------------------------------------------ C4
\* C4: every spawned worker is reaped through its own handle in the
\* live-process table: no spawned worker stays alive while its handle is
\* absent from the table.
C4_LiveWorkerIsInTable ==
  server = "up" =>
    \A r \in Reqs : proc[r] = "live" => activeProcesses[processId[r]] = r

\* ------------------------------------------------------------------ C5
\* C5: cleanup(jobId) is idempotent: a second call in a row, or a call for an
\* identifier without entry, changes nothing and sends no signal; the first
\* call makes at most one kill() call, leaves no entry for jobId and leaves
\* every other entry unchanged.
C5_CleanupIdempotent ==
  \A id \in Clock : \A t1, t2 \in {{}, Reqs} :
    LET S1 == cleanupPythonProcess(Sup, id, t1, Live)
        S2 == cleanupPythonProcess(S1, id, t2, Live)
    IN  /\ S1.ap[id] = NoProc
        /\ \A other \in Clock \ {id} : S1.ap[other] = activeProcesses[other]
        /\ \A h \in Reqs : S1.kc[h] <= killCalls[h] + 1
        /\ Cardinality({ h \in Reqs : S1.kc[h] # killCalls[h] }) <= 1
        /\ S2 = S1
        /\ activeProcesses[id] = NoProc => S1 = Sup

\* The table holds a live worker (the first call kills it) next to an
\* identifier without entry.
C5_Witness ==
  /\ \E id \in Clock : activeProcesses[id] # NoProc /\ activeProcesses[id] \in Live
  /\ \E id \in Clock : activeProcesses[id] = NoProc

\* ------------------------------------------------------------------ C6
\* C6: on SIGTERM or SIGINT cleanup is called for every job with a live
\* worker before the server exits: at exit the table is empty and every
\* worker still running has had its kill() call.
C6_ShutdownReapsAll ==
  server = "exited" =>
    /\ \A id \in Clock : activeProcesses[id] = NoProc
    /\ \A r \in Reqs : proc[r] = "live" => killCalls[r] >= 1

\* ------------------------------------------------------------------ C7
\* C7: when the uploading client disconnects while its worker runs,
\* cleanup(jobId) is triggered: the worker is terminated and removed from
\* the live-process table.
C7_DisconnectTriggersCleanup ==
  \A r \in Reqs :
    (server = "up" /\ ~clientOpen[r] /\ proc[r] = "live") =>
      /\ killCalls[r] >= 1
      /\ activeProcesses[processId[r]] # r

\* --------------------------------------------------- correlator vocabulary
Lines(r) == Flatten(result[r])

\* Line i is the last line of r's output that starts with "{" and ends with "}".
IsLastStructured(r, i) ==
  /\ Lines(r)[i].k \in {"bad", "json"}
  /\ \A j \in (i + 1)..Len(Lines(r)) : Lines(r)[j].k \notin {"bad", "json"}

\* Line i is a valid success record: it parses, says success, names a path.
IsSuccessRecord(l) == l.k = "json" /\ l.status = "success" /\ l.path # <<>>

HasStep(r, step) == \E i \in Terminals(r) : trace[r][i].currentStep = step
HasStatus(r, st) == \E i \in Responses(r) : trace[r][i].status = st

\* ------------------------------------------------------------------ C8
\* C8: when the worker exits with code 0 the Job is resolved from the last
\* structured-looking line: if that line is a valid success record the Job
\* completes with that record's output_path and categories, whatever
\* structured-looking lines (malformed or valid) came before it.
C8_LastRecordWins ==
  \A r \in Reqs :
    exitCode[r] = 0 =>
      \A i \in 1..Len(Lines(r)) :
        (IsLastStructured(r, i) /\ IsSuccessRecord(Lines(r)[i])) =>
          /\ HasStep(r, "Complete") /\ ~HasStep(r, "Error")
          /\ output[r][2] = Lines(r)[i].path
          /\ output[r][3] = Lines(r)[i].cats
          /\ ~HasStatus(r, 500)
          /\ phase[r] = "done" =>
                \E k \in Responses(r) :
                  /\ trace[r][k].status = 200
                  /\ trace[r][k].body[1] = "success"
                  /\ trace[r][k].body[2] = Lines(r)[i].path
                  /\ trace[r][k].body[3] = Lines(r)[i].cats

\* Answered after output with a malformed structured-looking line and a
\* different success record ahead of the final success record.
C8_Witness ==
  /\ phase[1] = "done" /\ exitCode[1] = 0
  /\ \E i, j, k \in 1..Len(Lines(1)) :
       /\ i < k /\ j < k
       /\ Lines(1)[i].k = "bad"
       /\ IsSuccessRecord(Lines(1)[j])
       /\ IsLastStructured(1, k) /\ IsSuccessRecord(Lines(1)[k])
       /\ Lines(1)[j].path # Lines(1)[k].path

\* ------------------------------------------------------------------ C9
\* C9: whenever the worker exits with a non-zero code the Job fails: an Error
\* terminal event is published and the request gets a non-2xx response, also
\* when the captured output holds a valid success record.
C9_NonZeroExitFails ==
  \A r \in Reqs :
    exitCode[r] \notin {0, NotClosed} =>
      /\ HasStep(r, "Error") /\ ~HasStep(r, "Complete")
      /\ \E k \in Responses(r) : trace[r][k].status >= 300
      /\ ~HasStatus(r, 200)
      /\ phase[r] = "done"

\* Exit code 1 after output whose last structured line is a valid success record.
C9_Witness ==
  /\ exitCode[1] = 1
  /\ \E i \in 1..Len(Lines(1)) : IsLastStructured(1, i) /\ IsSuccessRecord(Lines(1)[i])

\* ------------------------------------------------------------------ C10
\* C10: when the worker exits with code 0 but its output has no structured
\* record, or the record carries a status other than success, the Job fails:
\* an Error terminal event is published and a non-2xx response with a message
\* (the record's own message when it has one) is returned; a success payload
\* is returned only when a success record was found.
C10_NoSuccessRecordFails ==
  \A r \in Reqs :
    /\ ( /\ exitCode[r] = 0
         /\ \A i \in 1..Len(Lines(r)) :
              IsLastStructured(r, i) =>
                (Lines(r)[i].k = "json" /\ Lines(r)[i].status # "success") )
       => /\ HasStep(r, "Error") /\ ~HasStep(r, "Complete")
          /\ ~HasStatus(r, 200)
          /\ \E k \in Responses(r) :
               /\ trace[r][k].status >= 300
               /\ trace[r][k].body[1] = "error"
               /\ trace[r][k].body[3] # ""
               /\ \A i \in 1..Len(Lines(r)) :
                    (IsLastStructured(r, i) /\ Lines(r)[i].error # "none") =>
                      trace[r][k].body[3] = Lines(r)[i].error
    /\ HasStatus(r, 200) =>
         \E i \in 1..Len(Lines(r)) : IsLastStructured(r, i) /\ IsSuccessRecord(Lines(r)[i])

\* Exit code 0 with an error record as the last structured line, after an
\* earlier success record.
C10_Witness ==
  /\ exitCode[1] = 0
  /\ \E i, j \in 1..Len(Lines(1)) :
       /\ j < i
       /\ IsSuccessRecord(Lines(1)[j])
       /\ IsLastStructured(1, i) /\ Lines(1)[i].k = "json" /\ Lines(1)[i].status = "error"

\* ------------------------------------------------------------------ C11
\* A name with a parent-directory segment, and a name without the extension.
HasTraversalSegment(name) ==
  \E i \in 1..(Len(name) - 1) :
    /\ name[i] = "." /\ name[i + 1] = "."
    /\ (i = 1 \/ name[i - 1] = "/")
    /\ (i + 1 = Len(name) \/ name[i + 2] = "/")

LacksExtension(name) ==
  \/ Len(name) < 5
  \/ \E k \in 1..5 : name[Len(name) - 5 + k] # ExtPptx[k]

\* C11: a download whose name is empty, has a ".." segment or does not end
\* with .pptx is answered 400 before any file-system call; a name that passes
\* the check but does not exist is answered 404; neither streams a byte.
C11_InvalidNameBeforeFs ==
  \A i \in 1..Len(downloads) :
    LET d == downloads[i]
    IN  /\ (d.name = << >> \/ HasTraversalSegment(d.name) \/ LacksExtension(d.name)) =>
             (d.status = 400 /\ d.fs = << >> /\ ~d.bytes)
        /\ (d.status # 400 /\ ~d.exists) =>
             (d.status = 404 /\ "createReadStream" \notin { d.fs[k] : k \in 1..Len(d.fs) }
              /\ ~d.bytes)

\* A traversal name that ends with the extension was rejected and a valid
\* name of a missing file was answered 404.
C11_Witness ==
  /\ \E i \in 1..Len(downloads) :
       downloads[i].name = NameUpReport /\ downloads[i].status = 400
  /\ \E i \in 1..Len(downloads) :
       downloads[i].name = NameReport /\ downloads[i].status = 404

\* ------------------------------------------------------- hub vocabulary
\* The events sendProgress is called with during the step.
PublishedNow ==
  IF \E r \in Reqs : trace'[r] # trace[r]
    THEN LET r == CHOOSE q \in Reqs : trace'[q] # trace[q]
         IN  SelectSeq(SubSeq(trace'[r], Len(trace[r]) + 1, Len(trace'[r])), IsEvent)
    ELSE << >>

\* ------------------------------------------------------------------ C12
\* C12: during publish a failing write to one subscriber does not stop the
\* delivery of the event to the other registered subscribers, and once a
\* subscriber has disconnected and been removed no write to it is attempted.
C12_DeliveryFailureIsolated ==
  [][ \A s \in Subs :
        /\ (s \in Registered(progressStore) /\ subOpen[s] = "open") =>
             channel'[s] = channel[s] \o PublishedNow
        /\ subOpen[s] = "closed" =>
             (writes'[s] = writes[s] /\ channel'[s] = channel[s]) ]_vars

\* Two events were published after both subscribers had connected (at
\* different clock values): the second subscriber received both, the first
\* one failed on one and was removed before the other.
C12_Witness ==
  /\ MaxSubs >= 2
  /\ subOpen[1] = "closed" /\ subOpen[2] = "open"
  /\ subId[1] < subId[2]
  /\ Len(channel[1]) = 1 /\ writes[1] = 2
  /\ Len(channel[2]) = 3 /\ writes[2] = 3

\* ------------------------------------------------------------------ C13
\* C13: publish delivers each event exactly once to every subscriber whose
\* connection is open at that moment, also for two subscribers that connected
\* at the same clock value.
C13_EveryOpenSubscriberReceives ==
  [][ \A s \in Subs :
        subOpen[s] = "open" => channel'[s] = channel[s] \o PublishedNow ]_vars

\* ------------------------------------------------------------------ C14
\* C14: a subscriber receives exactly one "connecting" event (stepProgress 0,
\* totalFiles 0, processedFiles 0) and it is the first message on its
\* channel; nothing is on the channel before the subscriber connects.
C14_ConnectingFirst ==
  \A s \in Subs :
    IF subOpen[s] = "idle"
      THEN channel[s] = << >>
      ELSE /\ Len(channel[s]) >= 1
           /\ channel[s][1].currentStep = "Connecting..."
           /\ channel[s][1].stepProgress = 0
           /\ channel[s][1].totalFiles = 0
           /\ channel[s][1].processedFiles = 0
           /\ \A i \in 2..Len(channel[s]) : channel[s][i].currentStep # "Connecting..."

\* A subscriber that has received job events after its connecting event.
C14_Witness ==
  \E s \in Subs : Len(channel[s]) >= 3 /\ IsTerminal(channel[s][3])

\* ------------------------------------------------------------------ C15
IsImg(l) == l.k = "img"

\* The worker of r writes whole lines: every tail received completes the
\* head received just before it, and a head is followed by nothing else.
WritesWholeLines(r) ==
  LET ps == Pieces(result[r])
  IN  \A i \in 1..Len(ps) :
        /\ ps[i].k = "head" => (i = Len(ps) \/ Completes(ps[i], ps[i + 1]))
        /\ ps[i].k = "tail" => (i > 1 /\ ps[i - 1].k = "head" /\ Completes(ps[i - 1], ps[i]))

\* The worker of r reports its images 1, 2, ... in order, none beyond the
\* number of inputs, classifies only after reporting an image, and writes no
\* image or classification line after the report-generation line.
InOrderWorker(r) ==
  LET imgs == SelectSeq(Lines(r), IsImg)
  IN  /\ WritesWholeLines(r)
      /\ \A i \in 1..Len(imgs) : imgs[i].n = i
      /\ Len(imgs) <= totalFiles[r]
      /\ \A g, i \in 1..Len(Lines(r)) :
           (Lines(r)[g].k = "gen" /\ g < i) => Lines(r)[i].k \notin {"img", "cls"}
      /\ \A c \in 1..Len(Lines(r)) :
           Lines(r)[c].k = "cls" => \E i \in 1..(c - 1) : Lines(r)[i].k = "img"

JobEvents(r) == SelectSeq(trace[r], IsEvent)

NonDecreasing(evs) ==
  \A i, j \in 1..Len(evs) : i <= j => evs[i].processedFiles <= evs[j].processedFiles

\* C15 as claimed: over all the events published for one Job whose worker
\* reports images 1..N in order and does not fail, processedFiles never
\* decreases and the Complete event carries the total input count.
C15_ProcessedFilesMonotone ==
  \A r \in Reqs :
    (proc[r] # "none" /\ InOrderWorker(r) /\ ~HasStep(r, "Error")) =>
      /\ NonDecreasing(JobEvents(r))
      /\ HasStep(r, "Complete") =>
           JobEvents(r)[Len(JobEvents(r))].processedFiles = totalFiles[r]

\* C15 amended: the first event of a Job ('Files uploaded') carries
\* processedFiles = totalFiles; over the events published after it, for a
\* worker that reports images 1..N in order and does not fail, processedFiles
\* never decreases and the Complete event carries the total input count.
C15_MonotoneAfterUploadEvent ==
  \A r \in Reqs :
    (proc[r] # "none" /\ InOrderWorker(r) /\ ~HasStep(r, "Error")) =>
      /\ JobEvents(r)[1].currentStep = "Files uploaded"
      /\ JobEvents(r)[1].processedFiles = totalFiles[r]
      /\ NonDecreasing(Tail(JobEvents(r)))
      /\ HasStep(r, "Complete") =>
           JobEvents(r)[Len(JobEvents(r))].processedFiles = totalFiles[r]

\* Two inputs, images 1 and 2 reported in order in two chunks, then success.
C15_Witness ==
  /\ totalFiles[1] = 2 /\ InOrderWorker(1) /\ HasStep(1, "Complete")
  /\ Len(SelectSeq(Lines(1), IsImg)) = 2
  /\ Len(JobEvents(1)) = 4
  /\ JobEvents(1)[2].processedFiles = 1
  /\ JobEvents(1)[3].processedFiles = 2

\* ------------------------------------------------------------------ C16
\* The handler of r got past fs.writeFileSync.
ManifestWritten(r) ==
  /\ IsJob(r)
  /\ \A i \in EventsOf(r) : trace[r][i].details # <<"Error during upload process">>

\* C16: however a Job whose manifest was written ends, cleanup is invoked
\* exactly once for it and its manifest is removed.
C16_CleanupOnceManifestRemoved ==
  \A r \in Reqs :
    (ManifestWritten(r) /\ phase[r] = "done") => (cleanups[r] = 1 /\ jsonFile # r)

\* ------------------------------------------------------------------ C17
\* The worker of r could not be launched: spawn threw, or the child emitted
\* 'error'.
SpawnFailed(r) ==
  \/ phase[r] = "spawnFailed"
  \/ \E i \in EventsOf(r) : trace[r][i].details = <<"Error running Python process">>

\* C17: when the worker cannot be located or launched only that Job fails: an
\* Error terminal event is published, the request gets a non-2xx error
\* payload and the server process keeps running.
C17_SpawnFailureIsContained ==
  \A r \in Reqs :
    SpawnFailed(r) =>
      /\ server # "crashed"
      /\ HasStep(r, "Error")
      /\ \E k \in Responses(r) : trace[r][k].status >= 300 /\ trace[r][k].body[1] = "error"

\* ------------------------------------------------------------------ C18
\* C18: an upload whose worker has exited gets exactly one response, none
\* while the worker runs; the response is the success payload exactly when
\* the terminal event is Complete and an error body with a non-success status
\* exactly when it is Error. Between the close and the response only the
\* timer of the success branch is pending.
C18_OneResponseAgreesWithTerminal ==
  \A r \in Reqs :
    /\ proc[r] \in {"live", "exited"} => Responses(r) = {}
    /\ proc[r] = "closed" =>
         \/ phase[r] = "responding" /\ Responses(r) = {} /\ HasStep(r, "Complete")
         \/ /\ phase[r] = "done"
            /\ Cardinality(Responses(r)) = 1
            /\ Cardinality(Terminals(r)) = 1
            /\ \A k \in Responses(r) :
                 /\ (trace[r][k].status = 200 /\ trace[r][k].body[1] = "success")
                      <=> HasStep(r, "Complete")
                 /\ (trace[r][k].status >= 300 /\ trace[r][k].body[1] = "error")
                      <=> HasStep(r, "Error")

\* One worker exited and was answered with the success payload, another died
\* of a signal and was answered with an error.
C18_Witness ==
  /\ \E r \in Reqs : proc[r] = "closed" /\ phase[r] = "done" /\ HasStatus(r, 200)
  /\ \E r \in Reqs : proc[r] = "closed" /\ exitCode[r] = NullCode /\ HasStatus(r, 500)

\* ------------------------------------------------------------------ C19
\* C19: two distinct upload requests obtain different Job identifiers, also
\* when both arrive within the same millisecond.
C19_UniqueJobIds ==
  \A r1, r2 \in Reqs :
    (r1 # r2 /\ IsJob(r1) /\ IsJob(r2)) => processId[r1] # processId[r2]

\* ------------------------------------------------------------------ C20
IsMarker(l) == l.k \in {"img", "cls", "gen"}

IsStdoutEvent(e) ==
  IsEvent(e) /\ e.currentStep \in {"Analyzing Images", "Creating Presentation"}

\* Event e is the one that marker line l calls for.
EventOfLine(e, l) ==
  CASE l.k = "img" -> e.currentStep = "Analyzing Images" /\ e.details[1] = "Analyzing image"
                      /\ e.processedFiles = l.n
    [] l.k = "cls" -> e.currentStep = "Analyzing Images"
                      /\ e.details = <<"Last image classified as", l.cat>>
    [] l.k = "gen" -> e.currentStep = "Creating Presentation"

\* C20: whatever the split of stdout into chunks, every marker line ("image N
\* of M", "classified as X", report generation) produces exactly one
\* ProgressEvent and the events are published in the order of the lines.
C20_OneEventPerMarkerLine ==
  \A r \in Reqs :
    LET markers == SelectSeq(Lines(r), IsMarker)
        evs     == SelectSeq(trace[r], IsStdoutEvent)
    IN  /\ Len(evs) = Len(markers)
        /\ \A i \in 1..Len(evs) : EventOfLine(evs[i], markers[i])

\* ------------------------------------------------------------------ C21
\* C21: every published ProgressEvent has stepProgress in 0..100, totalFiles
\* >= 0 and processedFiles >= 0, whatever the worker writes, also an "image N
\* of M" line whose N exceeds the number of uploaded files.
C21_EventFieldsInRange ==
  \A r \in Reqs : \A i \in EventsOf(r) :
    /\ trace[r][i].stepProgress \in 0..100
    /\ trace[r][i].totalFiles >= 0
    /\ trace[r][i].processedFiles >= 0

\* ------------------------------------------------------------------ C22
\* The chunk the 'data' callback of r has just handled, and what it published.
NewChunk(r)  == result'[r][Len(result'[r])]
NewEvents(r) == SubSeq(trace'[r], Len(trace[r]) + 1, Len(trace'[r]))

IsImageEvent(e) == IsEvent(e) /\ e.details[1] = "Analyzing image"

\* e repeats the counters of the last "image N of M" event among evs.
SameCountersAsLastImage(e, evs) ==
  LET imgs == SelectSeq(evs, IsImageEvent)
  IN  imgs # <<>> =>
        /\ e.processedFiles = imgs[Len(imgs)].processedFiles
        /\ e.stepProgress = imgs[Len(imgs)].stepProgress
        /\ e.totalFiles = imgs[Len(imgs)].totalFiles

\* C22: a "classified as X" line publishes an event whose details carry X and
\* whose processedFiles, stepProgress and totalFiles are those of the most
\* recent "image N of M" event of the Job; a chunk without an "image N of M"
\* line leaves the processed-image counter unchanged.
C22_ClassifiedAsKeepsCounters ==
  [][ \A r \in Reqs :
        result'[r] # result[r] =>
          /\ \A i \in 1..Len(NewChunk(r)) :
               NewChunk(r)[i].k = "cls" =>
                 \E j \in 1..Len(NewEvents(r)) :
                   /\ NewEvents(r)[j].details =
                        <<"Last image classified as", NewChunk(r)[i].cat>>
                   /\ SameCountersAsLastImage(NewEvents(r)[j],
                        SubSeq(trace'[r], 1, Len(trace[r]) + j - 1))
          /\ ~HasKind(NewChunk(r), "img") => processedImages'[r] = processedImages[r]
    ]_vars

\* ------------------------------------------------------------------ C23
\* C23: while the worker of a Job runs, the manifest path passed to it holds
\* that Job's input paths: another Job's intake does not overwrite it and
\* another Job's completion does not delete it.
C23_ManifestPerJob ==
  \A r \in Reqs : proc[r] = "live" => jsonFile = r

\* ------------------------------------------------------------------ C24
\* C24: when subscriber S disconnects, S leaves the subscriber set and every
\* other registered subscriber stays registered.
C24_UnsubscribeRemovesOnlySelf ==
  [][ \A s \in Subs :
        (subOpen[s] \in {"open", "gone"} /\ subOpen'[s] = "closed") =>
          /\ s \notin Registered(progressStore')
          /\ \A t \in Subs \ {s} :
               t \in Registered(progressStore) => t \in Registered(progressStore')
    ]_vars

\* ------------------------------------------------------------------ C25
\* C25: a kill() that throws is not propagated: the 'close' callback still
\* removes the table entry of its Job and goes on, and the shutdown sweep
\* still calls kill() on every registered worker and empties the table.
C25_KillFailureContained ==
  [][ /\ (server = "up" /\ server' = "exited") =>
           \A id \in Clock :
             /\ activeProcesses'[id] = NoProc
             /\ activeProcesses[id] # NoProc =>
                  killCalls'[activeProcesses[id]] = killCalls[activeProcesses[id]] + 1
      /\ \A r \in Reqs :
           (proc[r] \in {"live", "exited"} /\ proc'[r] = "closed") =>
             /\ server' = "up"
             /\ activeProcesses'[processId[r]] = NoProc
             /\ Terminals(r)' # {}
    ]_vars

\* A sweep over two live workers in which kill() threw for the first one
\* (called, no signal delivered) and the second one was still signalled.
C25_Witness ==
  /\ server = "exited"
  /\ \A id \in Clock : activeProcesses[id] = NoProc
  /\ \E h, g \in Reqs :
       /\ processId[h] < processId[g]
       /\ proc[h] = "live" /\ killCalls[h] = 1 /\ ~signalled[h]
       /\ proc[g] = "live" /\ killCalls[g] = 1 /\ signalled[g]

\* ------------------------------------------------------------------ C26
\* C26: an upload without files is answered 400 and does nothing else: no
\* event is published, no worker and no manifest are created, and the
\* live-process table is unchanged.
C26_EmptyUploadOnlyRejects ==
  [][ \A r \in Reqs :
        (phase[r] = "idle" /\ phase'[r] = "rejected") =>
          /\ trace'[r] = << Response(400, <<"error", "No files uploaded">>, clientOpen[r]) >>
          /\ UNCHANGED << server, totalFiles, proc, activeProcesses, killCalls, signalled,
                          jsonFile, progressStore, channel, writes, result,
                          processedImages, output, cleanups >>
    ]_vars

\* An empty upload rejected while an earlier Job with the same identifier is
\* running: its table entry and its manifest are still there.
C26_Witness ==
  \E q, r \in Reqs :
    /\ q < r
    /\ phase[r] = "rejected" /\ HasStatus(r, 400) /\ Len(trace[r]) = 1
    /\ proc[q] = "live" /\ processId[q] = processId[r]
    /\ activeProcesses[processId[q]] = q /\ jsonFile = q

\* ------------------------------------------------------------------ C27
\* eventSource.onmessage: the client closes its EventSource on a message whose
\* currentStep is 'Complete' or 'Error'.
ClientClosesOn(e) == e.currentStep \in {"Complete", "Error"}

SawTerminal(s) == \E i \in 1..Len(channel[s]) : ClientClosesOn(channel[s][i])

RECURSIVE CountEvents(_)
CountEvents(rs) ==
  IF rs = {} THEN 0
  ELSE LET r == CHOOSE x \in rs : TRUE
       IN  Len(SelectSeq(trace[r], IsEvent)) + CountEvents(rs \ {r})

\* Subscriber s connected before any Job published and missed nothing since.
ReceivedAll(s) == Len(channel[s]) = 1 + CountEvents(Reqs)

\* C27: subscriber s is the EventSource of the client that uploaded request
\* s. When that client, having received every event published so far, closes
\* its subscription on a terminal event, its own Job has published its
\* terminal event.
C27_ClientStaysUntilOwnTerminal ==
  [][ \A s \in Subs \cap Reqs :
        ( /\ subOpen[s] = "open" /\ subOpen'[s] = "closed"
          /\ phase[s] # "idle"
          /\ ReceivedAll(s) /\ SawTerminal(s) ) => Terminals(s) # {}
    ]_vars

====
